---------------------------- MODULE Spec2Model ----------------------------
(***************************************************************************)
(* jest-console-count-reporter: the per-worker console interceptor and     *)
(* flush of setup.js, the shared aggregate file, and the reporter          *)
(* (onRunStart, readAggregate, onRunComplete and its renderers).           *)
(*                                                                         *)
(* Representation.                                                         *)
(*  - A string is a sequence of chunks.  Every character the code looks    *)
(*    for (":", " ", "\n", "|", "/") is a chunk of its own; any other      *)
(*    chunk is a run of ordinary characters.  split, join, trim and the    *)
(*    escaping of "|" are computed on that sequence.                       *)
(*  - A JS object is a sequence of <<key, value>> entries with distinct    *)
(*    keys, in insertion order (the order Object.entries and for..in       *)
(*    give for non-numeric keys).                                          *)
(*  - The aggregate file is a document [kind, counts, files]: kind is      *)
(*    "absent" (no file), "corrupt" (content JSON.parse rejects) or "ok".  *)
(*  - Each fs call (readFileSync, writeFileSync, unlinkSync) is one step.  *)
(*  - An argument of a console call is a value [type, chunks]; String()    *)
(*    converts it or throws.                                               *)
(*  - A worker is one test file's instance of the setup script.            *)
(***************************************************************************)
EXTENDS Integers, Sequences, FiniteSets, TLC

VARIABLES
    phase,      \* "idle" before onRunStart, "running", "done" after onRunComplete
    store,      \* the aggregate file at AGGREGATE_PATH
    local,      \* per worker: [counts |-> globalConsoleCounts, files |-> fileConsoleCounts]
    pc,         \* per worker: "run" (tests running), "merged" (read and merged, not yet written), "done"
    all,        \* per worker: [counts |-> allCounts, files |-> allFiles] of its flush
    seen,       \* per worker: the workers whose write preceded this worker's read (history)
    flushes,    \* per worker: completed flushes (history)
    base,       \* the store before the last onRunStart, or the initial one (history)
    out,        \* what onRunComplete produced
    enabled,    \* process.env.CONSOLE_COUNT_REPORTER_ENABLED is set
    setupFile,  \* the setup script in setupFilesAfterEnv: "setup.js" or "part_001"
    made,       \* per worker: the console calls the tests made, <<method, args>> (history)
    forwarded,  \* per worker: the calls the original console methods received
    raised,     \* per worker: the console calls that threw to their caller
    ranked      \* what the reporter's totals and ranking methods returned

envVars == <<enabled, setupFile>>

callVars == <<made, forwarded, raised>>

vars == <<phase, store, local, pc, all, seen, flushes, base, out, envVars, callVars, ranked>>

----------------------------------------------------------------------------
(* Bounds *)

NumWorkers == 2
MaxCalls == 3
MaxFlushes == 2
MaxOrigins == 7
MaxCount == 2
MaxKeys == 3
MaxN == 3

Workers == 1..NumWorkers

----------------------------------------------------------------------------
(* Program constants *)

MAX_FILES == 5
\* Mutant of REPORT_THRESHOLD: allFiles.length > 5
ReportThresholdStrict == MAX_FILES + 1

REPORT_THRESHOLD == 5
TOP_N == 5

methods == <<"log", "warn", "error", "info", "debug">>

----------------------------------------------------------------------------
(* JS objects as ordered maps *)

EmptyObj == << >>

Has(o, k) == \E i \in DOMAIN o : o[i][1] = k

Idx(o, k) == CHOOSE i \in DOMAIN o : o[i][1] = k

Get(o, k) == o[Idx(o, k)][2]

\* (o[k] || 0)
GetOr0(o, k) == IF Has(o, k) THEN Get(o, k) ELSE 0

\* o[k] = v: in place when the key exists, appended otherwise
Put(o, k, v) ==
    IF Has(o, k) THEN [o EXCEPT ![Idx(o, k)] = <<k, v>>] ELSE Append(o, <<k, v>>)

KeySet(o) == {o[i][1] : i \in DOMAIN o}

RECURSIVE SumSeq(_)
SumSeq(s) == IF s = << >> THEN 0 ELSE Head(s)[2] + SumSeq(Tail(s))

----------------------------------------------------------------------------
(* Strings as chunk sequences *)

\* s.split(sep): the pieces between the occurrences of the chunk sep
RECURSIVE SplitFrom(_, _, _)
SplitFrom(s, sep, cur) ==
    IF s = << >> THEN <<cur>>
    ELSE IF Head(s) = sep THEN <<cur>> \o SplitFrom(Tail(s), sep, << >>)
    ELSE SplitFrom(Tail(s), sep, Append(cur, Head(s)))

Split(s, sep) == SplitFrom(s, sep, << >>)

\* parts.join(sep)
RECURSIVE Join(_, _)
Join(parts, sep) ==
    IF parts = << >> THEN << >>
    ELSE IF Len(parts) = 1 THEN Head(parts)
    ELSE Head(parts) \o <<sep>> \o Join(Tail(parts), sep)

Whitespace == {" ", "\n"}

RECURSIVE TrimLeft(_)
TrimLeft(s) ==
    IF s # << >> /\ Head(s) \in Whitespace THEN TrimLeft(Tail(s)) ELSE s

RECURSIVE TrimRight(_)
TrimRight(s) ==
    IF s # << >> /\ s[Len(s)] \in Whitespace
    THEN TrimRight(SubSeq(s, 1, Len(s) - 1)) ELSE s

Trim(s) == TrimRight(TrimLeft(s))

----------------------------------------------------------------------------
(* The aggregate file *)

Absent == [kind |-> "absent", counts |-> EmptyObj, files |-> EmptyObj]
Corrupt == [kind |-> "corrupt", counts |-> EmptyObj, files |-> EmptyObj]

\* JSON.stringify({counts, files}) written by writeFileSync
Document(counts, files) == [kind |-> "ok", counts |-> counts, files |-> files]

EmptySnapshot == [counts |-> EmptyObj, files |-> EmptyObj]


\* The store's content as a flush reads it (setup.js): an absent file is never
\* read, a parse failure is swallowed, and both leave allCounts/allFiles = {}
FlushLoad(doc) ==
    IF doc.kind = "ok" THEN [counts |-> doc.counts, files |-> doc.files]
    ELSE EmptySnapshot

----------------------------------------------------------------------------
(* setup.js: origin resolution *)

Unknown == <<"<unknown>">>

\* What `expect` offers at the time of a call
ExpectOk(testPath) == [kind |-> "path", testPath |-> testPath]
ExpectFailures ==
    { [kind |-> k, testPath |-> << >>] : k \in {"noexpect", "nogetstate", "nopath", "throws"} }

getCurrentTestFile(e) ==
    IF e.kind \in {"noexpect", "nogetstate"} THEN Unknown
    ELSE IF e.kind = "throws" THEN Unknown
    ELSE IF e.kind = "nopath" \/ e.testPath = << >> THEN Unknown
    ELSE LET parts == Split(e.testPath, "/") IN
         IF Len(parts) < 2 THEN parts[1]
         ELSE Join(SubSeq(parts, Len(parts) - 1, Len(parts)), "/")

----------------------------------------------------------------------------
(* setup.js: the counting wrapper *)

\* The values a test passes to console: a string, an ordinary object, and an
\* object without prototype (Object.create(null), querystring.parse(...))
Str(chunks) == [type |-> "string", chunks |-> chunks]
PlainObject == [type |-> "object", chunks |-> << >>]
NullProtoObject == [type |-> "nullproto", chunks |-> << >>]

\* String(v) throws a TypeError when v has neither toString nor valueOf
StringThrows(v) == v.type = "nullproto"

\* String(v) otherwise
StringOf(v) == IF v.type = "string" THEN v.chunks ELSE <<"[object Object]">>

Empty == <<"<empty>">>

\* String(args[0]).split('\n')[0], or '<empty>' without arguments
Signature(args) ==
    IF Len(args) > 0 THEN Split(StringOf(args[1]), "\n")[1] ELSE Empty

\* `${method}: ${key}`
CountKey(method, key) == <<method, ":", " ">> \o key

\* globalConsoleCounts[countKey] = (globalConsoleCounts[countKey] || 0) + 1
CountCall(counts, countKey) == Put(counts, countKey, GetOr0(counts, countKey) + 1)

\* if (!fileConsoleCounts[countKey]) fileConsoleCounts[countKey] = {}
\* fileConsoleCounts[countKey][file] = (fileConsoleCounts[countKey][file] || 0) + 1
CountFile(files, countKey, file) ==
    LET inner == IF Has(files, countKey) THEN Get(files, countKey) ELSE EmptyObj
    IN  Put(files, countKey, Put(inner, file, GetOr0(inner, file) + 1))

Track(buf, method, args, e) ==
    LET countKey == CountKey(method, Signature(args))
    IN  [counts |-> CountCall(buf.counts, countKey),
         files  |-> CountFile(buf.files, countKey, getCurrentTestFile(e))]

\* console[method] = (...args) => { ...; origConsole[method].apply(console, args) }
\* applied: the calls of the original it makes; String(args[0]) throws before
\* anything is counted or forwarded
Wrapper(buf, method, args, e) ==
    IF Len(args) > 0 /\ StringThrows(args[1])
    THEN [buf |-> buf, applied |-> << >>, threw |-> TRUE]
    ELSE [buf |-> Track(buf, method, args, e),
          applied |-> << <<method, args>> >>, threw |-> FALSE]

\* console[method] as the test environment provides it
Original(buf, method, args, e) ==
    [buf |-> buf, applied |-> << <<method, args>> >>, threw |-> FALSE]

\* setup.js patches and registers its flush only if the flag is set; the
\* script at the end of part_001 does both unconditionally
Patched(file, flag) == file = "part_001" \/ flag

----------------------------------------------------------------------------
(* setup.js: aggregateConsoleCounts *)

\* Mutant of MergeCounts: allCounts[key] = allCounts[key] || globalConsoleCounts[key]
RECURSIVE MergeCountsKeepsFirst(_, _)
MergeCountsKeepsFirst(allCounts, loc) ==
    IF loc = << >> THEN allCounts
    ELSE LET key == Head(loc)[1] IN
         MergeCountsKeepsFirst(
             IF Has(allCounts, key) THEN allCounts ELSE Put(allCounts, key, Head(loc)[2]),
             Tail(loc))

\* Mutant of MergeCounts: allCounts[key] = globalConsoleCounts[key]
RECURSIVE MergeCountsOverwrite(_, _)
MergeCountsOverwrite(allCounts, loc) ==
    IF loc = << >> THEN allCounts
    ELSE MergeCountsOverwrite(Put(allCounts, Head(loc)[1], Head(loc)[2]), Tail(loc))

\* for (const key in globalConsoleCounts)
\*   allCounts[key] = (allCounts[key] || 0) + globalConsoleCounts[key]
RECURSIVE MergeCounts(_, _)
MergeCounts(allCounts, loc) ==
    IF loc = << >> THEN allCounts
    ELSE LET key == Head(loc)[1] IN
         MergeCounts(Put(allCounts, key, GetOr0(allCounts, key) + Head(loc)[2]),
                     Tail(loc))

\* Mutant of MergeFileCounts: allFiles[key][file] = fileConsoleCounts[key][file]
RECURSIVE MergeFileCountsOverwrite(_, _)
MergeFileCountsOverwrite(fileMap, loc) ==
    IF loc = << >> THEN fileMap
    ELSE MergeFileCountsOverwrite(Put(fileMap, Head(loc)[1], Head(loc)[2]), Tail(loc))

\* for (const file in fileConsoleCounts[key])
\*   allFiles[key][file] = (allFiles[key][file] || 0) + fileConsoleCounts[key][file]
RECURSIVE MergeFileCounts(_, _)
MergeFileCounts(fileMap, loc) ==
    IF loc = << >> THEN fileMap
    ELSE LET file == Head(loc)[1] IN
         MergeFileCounts(Put(fileMap, file, GetOr0(fileMap, file) + Head(loc)[2]),
                         Tail(loc))

\* for (const key in fileConsoleCounts) { if (!allFiles[key]) allFiles[key] = {}; ... }
RECURSIVE MergeFiles(_, _)
MergeFiles(allFiles, loc) ==
    IF loc = << >> THEN allFiles
    ELSE LET key == Head(loc)[1]
             fileMap == IF Has(allFiles, key) THEN Get(allFiles, key) ELSE EmptyObj
         IN  MergeFiles(Put(allFiles, key, MergeFileCounts(fileMap, Head(loc)[2])),
                        Tail(loc))

\* Mutant of Merged: the merge loops inside the try block of the read
MergedInsideTry(doc, buf) ==
    IF doc.kind = "corrupt" THEN EmptySnapshot
    ELSE [counts |-> MergeCounts(FlushLoad(doc).counts, buf.counts),
          files  |-> MergeFiles(FlushLoad(doc).files, buf.files)]

\* The read and the two merge loops of a flush: what it is about to write
Merged(doc, buf) ==
    LET cur == FlushLoad(doc)
    IN  [counts |-> MergeCounts(cur.counts, buf.counts),
         files  |-> MergeFiles(cur.files, buf.files)]

----------------------------------------------------------------------------
(* reporter: onRunStart and readAggregate *)

\* fs.unlinkSync(AGGREGATE_PATH): throws when the file does not exist
unlinkSync(doc) == [store |-> Absent, threw |-> doc.kind = "absent"]

\* Mutant of onRunStart: the unlink without its try/catch
onRunStartUncaught(doc) == unlinkSync(doc)

\* try { fs.unlinkSync(AGGREGATE_PATH) } catch {}
onRunStart(doc) == [store |-> unlinkSync(doc).store, threw |-> FALSE]

NoError == "none"
ParseError == "SyntaxError"

readAggregate(doc) ==
    IF doc.kind = "ok" THEN [counts |-> doc.counts, files |-> doc.files, error |-> NoError]
    ELSE IF doc.kind = "absent" THEN [counts |-> EmptyObj, files |-> EmptyObj, error |-> NoError]
    ELSE [counts |-> EmptyObj, files |-> EmptyObj, error |-> ParseError]

----------------------------------------------------------------------------
(* reporter: totals and ranking *)

\* const [method] = key.split(':')
MethodOf(key) == Split(key, ":")[1]

\* const [method, ...rest] = key.split(':'); rest.join(':').trim() || '<empty>'
MessageOf(key) ==
    LET message == Trim(Join(Tail(Split(key, ":")), ":"))
    IN  IF message = << >> THEN Empty ELSE message

\* Mutant of aggregateMethodTotalsFrom: methodTotals[method] = count
RECURSIVE aggregateMethodTotalsLast(_, _)
aggregateMethodTotalsLast(entries, methodTotals) ==
    IF entries = << >> THEN methodTotals
    ELSE aggregateMethodTotalsLast(
             Tail(entries),
             Put(methodTotals, MethodOf(Head(entries)[1]), Head(entries)[2]))

RECURSIVE aggregateMethodTotalsFrom(_, _)
aggregateMethodTotalsFrom(entries, methodTotals) ==
    IF entries = << >> THEN methodTotals
    ELSE LET method == MethodOf(Head(entries)[1]) IN
         aggregateMethodTotalsFrom(
             Tail(entries),
             Put(methodTotals, method, GetOr0(methodTotals, method) + Head(entries)[2]))

aggregateMethodTotals(counts) == aggregateMethodTotalsFrom(counts, EmptyObj)

\* Mutant of InsertDesc: an entry goes before the entries of equal count
RECURSIVE InsertDescBeforeEqual(_, _)
InsertDescBeforeEqual(sorted, x) ==
    IF sorted = << >> THEN <<x>>
    ELSE IF Head(sorted)[2] > x[2]
    THEN <<Head(sorted)>> \o InsertDescBeforeEqual(Tail(sorted), x)
    ELSE <<x>> \o sorted

\* Array.prototype.sort((a, b) => b.count - a.count): stable, descending by the
\* count (position 2 of an entry)
RECURSIVE InsertDesc(_, _)
InsertDesc(sorted, x) ==
    IF sorted = << >> THEN <<x>>
    ELSE IF Head(sorted)[2] >= x[2] THEN <<Head(sorted)>> \o InsertDesc(Tail(sorted), x)
    ELSE <<x>> \o sorted

RECURSIVE SortDescFrom(_, _)
SortDescFrom(s, sorted) ==
    IF s = << >> THEN sorted ELSE SortDescFrom(Tail(s), InsertDesc(sorted, Head(s)))

SortDesc(s) == SortDescFrom(s, << >>)

\* array.slice(0, n)
Slice(s, n) == SubSeq(s, 1, IF Len(s) < n THEN Len(s) ELSE n)

\* Group the entries by method: method -> <<message, count, key>> in key order
RECURSIVE GroupByMethod(_, _)
GroupByMethod(entries, methodMessages) ==
    IF entries = << >> THEN methodMessages
    ELSE LET key == Head(entries)[1]
             method == MethodOf(key)
             sofar == IF Has(methodMessages, method) THEN Get(methodMessages, method)
                      ELSE << >>
         IN  GroupByMethod(
                 Tail(entries),
                 Put(methodMessages, method,
                     Append(sofar, <<MessageOf(key), Head(entries)[2], key>>)))

getTopMessagesByMethod(counts, n) ==
    LET methodMessages == GroupByMethod(counts, EmptyObj)
    IN  [i \in DOMAIN methodMessages |->
            <<methodMessages[i][1], Slice(SortDesc(methodMessages[i][2]), n)>>]

----------------------------------------------------------------------------
(* reporter: the markdown report *)

\* message.replace(/\|/g, '\\|')
EscapePipes(message) ==
    [i \in DOMAIN message |-> IF message[i] = "|" THEN "\\|" ELSE message[i]]

\* Object.entries(filesMap[key]) throws a TypeError when filesMap has no such key
renderMessage(entry, filesMap) ==
    IF ~Has(filesMap, entry[3]) THEN [threw |-> TRUE, md |-> << >>]
    ELSE
    LET fileCounts == Get(filesMap, entry[3])
        sortedFiles == SortDesc(fileCounts)
        showFiles == IF Len(sortedFiles) > MAX_FILES + 1
                     THEN Slice(sortedFiles, MAX_FILES) ELSE sortedFiles
        remainingCount == Len(sortedFiles) - Len(showFiles)
    IN  [threw |-> FALSE,
         md |-> << <<"msg", entry[2], EscapePipes(entry[1])>> >>
                \o [i \in DOMAIN showFiles |-> <<"file", showFiles[i][2], showFiles[i][1]>>]
                \o (IF Len(showFiles) < Len(sortedFiles)
                    THEN << <<"more", remainingCount,
                              IF remainingCount > 1 THEN "files" ELSE "file">> >>
                    ELSE << >>)]

RECURSIVE renderMessages(_, _)
renderMessages(messages, filesMap) ==
    IF messages = << >> THEN [threw |-> FALSE, md |-> << >>]
    ELSE LET first == renderMessage(Head(messages), filesMap) IN
         IF first.threw THEN first
         ELSE LET rest == renderMessages(Tail(messages), filesMap) IN
              [threw |-> rest.threw, md |-> first.md \o rest.md]

RECURSIVE renderSections(_, _)
renderSections(methodMessages, filesMap) ==
    IF methodMessages = << >> THEN [threw |-> FALSE, md |-> << >>]
    ELSE LET method == Head(methodMessages)[1]
             first == renderMessages(Slice(SortDesc(Head(methodMessages)[2]), TOP_N),
                                     filesMap)
         IN  IF first.threw THEN first
             ELSE LET rest == renderSections(Tail(methodMessages), filesMap) IN
                  [threw |-> rest.threw,
                   md |-> << <<"section", method>> >> \o first.md \o rest.md]

\* filesMap is this.readAggregate().files: a second read of the file
renderTopMessagesByMethod(counts, doc) ==
    renderSections(GroupByMethod(counts, EmptyObj), readAggregate(doc).files)

renderMethodTotalsTable(methodTotals) ==
    << <<"tableHeader">> >>
    \o [i \in DOMAIN methodTotals |-> <<"row", methodTotals[i][1], methodTotals[i][2]>>]

generateMarkdownSummary(counts, doc) ==
    LET top == renderTopMessagesByMethod(counts, doc)
    IN  [threw |-> top.threw,
         md |-> << <<"h2summary">> >>
                \o renderMethodTotalsTable(aggregateMethodTotals(counts))
                \o top.md]

----------------------------------------------------------------------------
(* reporter: onRunComplete *)

\* new Set(Object.values(files).flatMap((fileMap) => Object.keys(fileMap)))
AllFiles(files) == UNION {KeySet(files[i][2]) : i \in DOMAIN files}

NoOutput ==
    [ran |-> FALSE, terminal |-> << >>, written |-> FALSE, md |-> << >>,
     threw |-> FALSE, reads |-> 0]

\* The lines of the one console.log(buffer) of a summary
SummaryLines(counts, shouldWriteMarkdown) ==
    LET methodTotals == aggregateMethodTotals(counts)
        topMsg == getTopMessagesByMethod(counts, 1)
        topOf(method) ==
            IF Has(topMsg, <<method>>) /\ Len(Get(topMsg, <<method>>)) > 0
            THEN LET t == Get(topMsg, <<method>>)[1] IN << <<"top", method, t[1], t[2]>> >>
            ELSE << >>
    IN  << <<"summary">> >>
        \o [i \in DOMAIN methodTotals |-> <<"total", methodTotals[i][1], methodTotals[i][2]>>]
        \o topOf("error") \o topOf("warn")
        \o (IF shouldWriteMarkdown THEN << <<"path">> >> ELSE << >>)

\* Mutant of onRunComplete: the branches on error and on no counts come
\* before the return on no files
onRunCompleteReportsFirst(doc) ==
    LET r == readAggregate(doc)
        shouldWriteMarkdown == Cardinality(AllFiles(r.files)) >= REPORT_THRESHOLD
        summary == generateMarkdownSummary(r.counts, doc)
    IN  IF r.error # NoError
        THEN [ran |-> TRUE, terminal |-> << <<"error", r.error>> >>,
              written |-> shouldWriteMarkdown, md |-> << <<"h2error", r.error>> >>,
              threw |-> FALSE, reads |-> 1]
        ELSE IF r.counts = << >>
        THEN [ran |-> TRUE, terminal |-> << <<"nocalls">> >>,
              written |-> shouldWriteMarkdown, md |-> << <<"h2nocalls">> >>,
              threw |-> FALSE, reads |-> 1]
        ELSE IF ~shouldWriteMarkdown
        THEN [ran |-> TRUE, terminal |-> SummaryLines(r.counts, FALSE),
              written |-> FALSE, md |-> << >>, threw |-> FALSE, reads |-> 1]
        ELSE [ran |-> TRUE,
              terminal |-> IF summary.threw THEN << >> ELSE SummaryLines(r.counts, TRUE),
              written |-> ~summary.threw, md |-> summary.md,
              threw |-> summary.threw, reads |-> 2]

onRunComplete(doc) ==
    LET r == readAggregate(doc)
        allFiles == AllFiles(r.files)
        shouldWriteMarkdown == Cardinality(allFiles) >= REPORT_THRESHOLD
    IN  IF Cardinality(allFiles) = 0
        THEN [NoOutput EXCEPT !.ran = TRUE, !.reads = 1]
        ELSE IF r.error # NoError
        THEN [ran |-> TRUE, terminal |-> << <<"error", r.error>> >>,
              written |-> shouldWriteMarkdown, md |-> << <<"h2error", r.error>> >>,
              threw |-> FALSE, reads |-> 1]
        ELSE IF r.counts = << >>
        THEN [ran |-> TRUE, terminal |-> << <<"nocalls">> >>,
              written |-> shouldWriteMarkdown, md |-> << <<"h2nocalls">> >>,
              threw |-> FALSE, reads |-> 1]
        ELSE IF ~shouldWriteMarkdown
        THEN [ran |-> TRUE, terminal |-> SummaryLines(r.counts, FALSE),
              written |-> FALSE, md |-> << >>, threw |-> FALSE, reads |-> 1]
        ELSE LET summary == generateMarkdownSummary(r.counts, doc) IN
             IF summary.threw
             THEN [ran |-> TRUE, terminal |-> << >>, written |-> FALSE, md |-> << >>,
                   threw |-> TRUE, reads |-> 2]
             ELSE [ran |-> TRUE, terminal |-> SummaryLines(r.counts, TRUE),
                   written |-> TRUE, md |-> summary.md, threw |-> FALSE, reads |-> 2]

----------------------------------------------------------------------------
(* Inputs *)

\* The test file each worker runs
TestPath(w) ==
    IF w = 1 THEN <<"/", "proj", "/", "a", "/", "t.test.js">>
    ELSE IF w = 2 THEN <<"/", "proj", "/", "b", "/", "t.test.js">>
    ELSE <<"/", "other", "/", "a", "/", "t.test.js">>

ExpectStates(w) == {ExpectOk(TestPath(w))} \cup ExpectFailures

\* The console calls the tests make: console.error('boom\nat x') and console.warn()
CallInputs ==
    { <<"error", << Str(<<"boom", "\n", "at", " ", "x">>) >> >>,
      <<"warn", << >> >> }

\* The same, and console.log(Object.create(null)), console.info({}, 'tail')
InterceptInputs ==
    CallInputs \cup { <<"log", << NullProtoObject >> >>,
                      <<"info", << PlainObject, Str(<<"tail">>) >> >> }

\* What the run before this one left at AGGREGATE_PATH
ResidueDoc ==
    Document(<< <<CountKey("log", <<"old">>), 1>> >>,
             << <<CountKey("log", <<"old">>), << <<<<"old", "/", "o.test.js">>, 1>> >> >> >>)

\* Nothing ranked yet
NoRanking == [n |-> 0, totals |-> EmptyObj, top |-> EmptyObj]

----------------------------------------------------------------------------
(* The run *)

\* The reporter is in use: the flag is set and setup.js is the setup script
InitEnabled ==
    /\ enabled = TRUE
    /\ setupFile = "setup.js"

\* No console call made, nothing ranked
InitObserved ==
    /\ made = [w \in Workers |-> << >>]
    /\ forwarded = [w \in Workers |-> << >>]
    /\ raised = [w \in Workers |-> 0]
    /\ ranked = NoRanking

\* The run starts with the earlier run's aggregate still on disk; ResetSpec
\* below starts onRunStart on every other store
Init ==
    /\ phase = "idle"
    /\ store = ResidueDoc
    /\ local = [w \in Workers |-> EmptySnapshot]
    /\ pc = [w \in Workers |-> "run"]
    /\ all = [w \in Workers |-> EmptySnapshot]
    /\ seen = [w \in Workers |-> {}]
    /\ flushes = [w \in Workers |-> 0]
    /\ base = store
    /\ out = NoOutput
    /\ InitEnabled
    /\ InitObserved

RunStart ==
    /\ phase = "idle"
    /\ phase' = "running"
    /\ store' = onRunStart(store).store
    /\ base' = store
    /\ UNCHANGED <<local, pc, all, seen, flushes, out, envVars, callVars, ranked>>

RECURSIVE CallsUpTo(_)
CallsUpTo(n) == IF n = 0 THEN 0 ELSE Len(made[n]) + CallsUpTo(n - 1)

\* The console calls made so far, over all workers
TotalCalls == CallsUpTo(NumWorkers)

\* console[c[1]](...c[2]) in worker w while expect is in state e
Invoke(w, c, e) ==
    LET r == IF Patched(setupFile, enabled)
             THEN Wrapper(local[w], c[1], c[2], e)
             ELSE Original(local[w], c[1], c[2], e)
    IN  /\ local' = [local EXCEPT ![w] = r.buf]
        /\ made' = [made EXCEPT ![w] = Append(@, c)]
        /\ forwarded' = [forwarded EXCEPT ![w] = @ \o r.applied]
        /\ raised' = [raised EXCEPT ![w] = IF r.threw THEN @ + 1 ELSE @]

\* A console call of the tests of worker w
Call(w) ==
    /\ phase = "running"
    /\ pc[w] = "run"
    /\ TotalCalls < MaxCalls
    /\ \E c \in CallInputs, e \in ExpectStates(w) : Invoke(w, c, e)
    /\ UNCHANGED <<phase, store, pc, all, seen, flushes, base, out, envVars, ranked>>

\* aggregateConsoleCounts up to its write: read the file, merge the buffers in
FlushRead(w) ==
    /\ phase = "running"
    /\ pc[w] = "run"
    /\ Patched(setupFile, enabled)
    /\ all' = [all EXCEPT ![w] = Merged(store, local[w])]
    /\ pc' = [pc EXCEPT ![w] = "merged"]
    /\ seen' = [seen EXCEPT ![w] = {v \in Workers : flushes[v] > 0}]
    /\ UNCHANGED <<phase, store, local, flushes, base, out, envVars, callVars, ranked>>

\* Mutant of FlushWrite: the hook stays armed and the worker goes on
FlushWriteRearms(w) ==
    /\ phase = "running"
    /\ pc[w] = "merged"
    /\ flushes[w] < MaxFlushes
    /\ store' = Document(all[w].counts, all[w].files)
    /\ pc' = [pc EXCEPT ![w] = "run"]
    /\ flushes' = [flushes EXCEPT ![w] = @ + 1]
    /\ UNCHANGED <<phase, local, all, seen, base, out, envVars, callVars, ranked>>

\* Mutant of FlushWrite: the buffer is merged into the file as it is at the write
FlushWriteReread(w) ==
    /\ phase = "running"
    /\ pc[w] = "merged"
    /\ store' = Document(Merged(store, local[w]).counts, Merged(store, local[w]).files)
    /\ pc' = [pc EXCEPT ![w] = "done"]
    /\ flushes' = [flushes EXCEPT ![w] = @ + 1]
    /\ UNCHANGED <<phase, local, all, seen, base, out, envVars, callVars, ranked>>

\* aggregateConsoleCounts: fs.writeFileSync(AGGREGATE_PATH, JSON.stringify(...))
FlushWrite(w) ==
    /\ phase = "running"
    /\ pc[w] = "merged"
    /\ store' = Document(all[w].counts, all[w].files)
    /\ pc' = [pc EXCEPT ![w] = "done"]
    /\ flushes' = [flushes EXCEPT ![w] = @ + 1]
    /\ UNCHANGED <<phase, local, all, seen, base, out, envVars, callVars, ranked>>

RunComplete ==
    /\ phase = "running"
    /\ \A w \in Workers : pc[w] = "done"
    /\ out' = onRunComplete(store)
    /\ phase' = "done"
    /\ UNCHANGED <<store, local, pc, all, seen, flushes, base, envVars, callVars, ranked>>

Next ==
    \/ RunStart
    \/ \E w \in Workers : Call(w)
    \/ \E w \in Workers : FlushRead(w)
    \/ \E w \in Workers : FlushWrite(w)
    \/ RunComplete

Spec == Init /\ [][Next]_vars

----------------------------------------------------------------------------
(* The reporter on the documents a run can end with *)

OriginNames == <<"f1", "f2", "f3", "f4", "f5", "f6", "f7", "f8", "f9", "f10">>

Origin(i) == <<"src", "/", OriginNames[i]>>

KeyA == CountKey("error", <<"a", "|", "b">>)
KeyB == CountKey("warn", <<"w">>)

\* A key's per-origin counts over the first n origins, c[i] calls at the i-th
FileMap(n, c) == [i \in 1..n |-> <<Origin(i), c[i]>>]

\* Five origins with one call each
FiveOrigins == FileMap(5, [i \in 1..5 |-> 1])

\* Documents as flushes leave them (every count is the sum of its origins):
\* KeyA alone, or KeyA and then KeyB
ConsistentDocs ==
    { Document(<< <<KeyA, SumSeq(FileMap(n, c))>> >>, << <<KeyA, FileMap(n, c)>> >>) :
        <<n, c>> \in UNION { {<<m, d>> : d \in [1..m -> 1..MaxCount]} : m \in 1..MaxOrigins } }
    \cup
    { Document(<< <<KeyA, SumSeq(FileMap(n, c))>>, <<KeyB, SumSeq(FiveOrigins)>> >>,
               << <<KeyA, FileMap(n, c)>>, <<KeyB, FiveOrigins>> >>) :
        <<n, c>> \in UNION { {<<m, d>> : d \in [1..m -> 1..MaxCount]} : m \in 1..MaxOrigins } }

\* What a run can end with: no file (nothing was flushed), an empty or populated
\* document, or content JSON.parse rejects (a writeFileSync cut short)
FinalDocs == {Absent, Corrupt, Document(EmptyObj, EmptyObj)} \cup ConsistentDocs

\* Documents flushes never leave: KeyA is counted but has no origins (its files
\* entry is missing or empty), beside a KeyB with five to maxOrigins origins
ForeignDocs(maxOrigins) ==
    { Document(<< <<KeyA, a>>, <<KeyB, SumSeq(FileMap(n, c))>> >>,
               fa \o << <<KeyB, FileMap(n, c)>> >>) :
        <<a, fa, n, c>> \in
            UNION { { <<x, y, m, d>> : x \in 1..MaxCount,
                                       y \in { << >>, << <<KeyA, EmptyObj>> >> },
                                       d \in [1..m -> 1..MaxCount] } :
                    m \in 5..maxOrigins } }

InitReportOn(docs) ==
    /\ phase = "running"
    /\ store \in docs
    /\ local = [w \in Workers |-> EmptySnapshot]
    /\ pc = [w \in Workers |-> "done"]
    /\ all = [w \in Workers |-> EmptySnapshot]
    /\ seen = [w \in Workers |-> {}]
    /\ flushes = [w \in Workers |-> 1]
    /\ base = Absent
    /\ out = NoOutput
    /\ InitEnabled
    /\ InitObserved

InitReport == InitReportOn(FinalDocs)

InitForeign == InitReportOn(FinalDocs \cup ForeignDocs(MaxOrigins))

NextReport == RunComplete

ReportSpec == InitReport /\ [][NextReport]_vars

ForeignSpec == InitForeign /\ [][NextReport]_vars

----------------------------------------------------------------------------
(* The flush applied again to the same buffer (a retried flush) *)

Retrier == 1

RECURSIVE BuffersAfter(_)
BuffersAfter(n) ==
    IF n = 0 THEN {EmptySnapshot}
    ELSE LET prev == BuffersAfter(n - 1) IN
         prev \cup { Track(b, c[1], c[2], e) :
                     b \in prev, c \in CallInputs, e \in ExpectStates(Retrier) }

MergeStores ==
    { Absent, Corrupt, ResidueDoc,
      Document(<< <<CountKey("warn", Empty), 2>> >>,
               << <<CountKey("warn", Empty), << <<Unknown, 1>>, <<<<"b", "/", "t.test.js">>, 1>> >> >> >>) }

InitMerge ==
    /\ phase = "running"
    /\ store \in MergeStores
    /\ local \in { [w \in Workers |-> IF w = Retrier THEN b ELSE EmptySnapshot] :
                   b \in BuffersAfter(MaxCalls) }
    /\ pc = [w \in Workers |-> "run"]
    /\ all = [w \in Workers |-> EmptySnapshot]
    /\ seen = [w \in Workers |-> {}]
    /\ flushes = [w \in Workers |-> 0]
    /\ base = store
    /\ out = NoOutput
    /\ InitEnabled
    /\ InitObserved

Retry(w) ==
    /\ pc[w] = "done"
    /\ flushes[w] < MaxFlushes
    /\ pc' = [pc EXCEPT ![w] = "run"]
    /\ UNCHANGED <<phase, store, local, all, seen, flushes, base, out, envVars, callVars, ranked>>

NextMerge ==
    \/ FlushRead(Retrier)
    \/ FlushWrite(Retrier)
    \/ Retry(Retrier)

MergeSpec == InitMerge /\ [][NextMerge]_vars

----------------------------------------------------------------------------
(* The flush whose write fails *)

\* fs.writeFileSync opens the file with truncation and then writes: when it
\* throws, the file is as it was (the open failed) or cut short (a write failed)
writeFileSyncFails(doc) == {doc, Corrupt}

\* aggregateConsoleCounts: try { fs.writeFileSync(...) } catch {}
FlushWriteFails(w) ==
    /\ phase = "running"
    /\ pc[w] = "merged"
    /\ store' \in writeFileSyncFails(store)
    /\ pc' = [pc EXCEPT ![w] = "done"]
    /\ UNCHANGED <<phase, local, all, seen, flushes, base, out, envVars, callVars, ranked>>

NextFault ==
    \/ FlushRead(Retrier)
    \/ FlushWrite(Retrier)
    \/ FlushWriteFails(Retrier)

FaultSpec == InitMerge /\ [][NextFault]_vars

----------------------------------------------------------------------------
(* The wrapper on every kind of argument *)

InitIntercept ==
    /\ phase = "running"
    /\ store \in MergeStores
    /\ local = [w \in Workers |-> EmptySnapshot]
    /\ pc = [w \in Workers |-> "run"]
    /\ all = [w \in Workers |-> EmptySnapshot]
    /\ seen = [w \in Workers |-> {}]
    /\ flushes = [w \in Workers |-> 0]
    /\ base = store
    /\ out = NoOutput
    /\ InitEnabled
    /\ InitObserved

\* A console call of the tests of worker w, with any of the arguments
CallAny(w) ==
    /\ phase = "running"
    /\ pc[w] = "run"
    /\ TotalCalls < MaxCalls
    /\ \E c \in InterceptInputs, e \in ExpectStates(w) : Invoke(w, c, e)
    /\ UNCHANGED <<phase, store, pc, all, seen, flushes, base, out, envVars, ranked>>

NextIntercept == \E w \in Workers : CallAny(w)

InterceptSpec == InitIntercept /\ [][NextIntercept]_vars

----------------------------------------------------------------------------
(* The run with the flag set or not, under either setup script *)

InitActivation ==
    /\ phase = "idle"
    /\ store = ResidueDoc
    /\ local = [w \in Workers |-> EmptySnapshot]
    /\ pc = [w \in Workers |-> "run"]
    /\ all = [w \in Workers |-> EmptySnapshot]
    /\ seen = [w \in Workers |-> {}]
    /\ flushes = [w \in Workers |-> 0]
    /\ base = store
    /\ out = NoOutput
    /\ enabled \in BOOLEAN
    /\ setupFile \in {"setup.js", "part_001"}
    /\ InitObserved

\* The tests of worker w end and no afterAll hook of the setup script runs
Finish(w) ==
    /\ phase = "running"
    /\ pc[w] = "run"
    /\ ~Patched(setupFile, enabled)
    /\ pc' = [pc EXCEPT ![w] = "done"]
    /\ UNCHANGED <<phase, store, local, all, seen, flushes, base, out, envVars, callVars, ranked>>

NextActivation ==
    \/ RunStart
    \/ \E w \in Workers : CallAny(w)
    \/ \E w \in Workers : FlushRead(w)
    \/ \E w \in Workers : FlushWrite(w)
    \/ \E w \in Workers : Finish(w)
    \/ RunComplete

ActivationSpec == InitActivation /\ [][NextActivation]_vars

----------------------------------------------------------------------------
(* The reporter's totals and ranking on the snapshots it can read *)

\* Keys as the wrapper builds them: three of one method, a message holding
\* ":", and the empty first line
RankKeys ==
    { CountKey("error", <<"a">>), CountKey("error", <<"b", ":", "c">>),
      CountKey("error", <<"d">>), CountKey("warn", <<"w">>), CountKey("log", << >>) }

\* The count maps of up to n distinct keys, in every key order
RECURSIVE CountMaps(_)
CountMaps(n) ==
    IF n = 0 THEN { EmptyObj }
    ELSE LET prev == CountMaps(n - 1) IN
         prev \cup { Append(x[1], <<x[2], x[3]>>) :
                     x \in { y \in prev \X RankKeys \X (1..MaxCount) : ~Has(y[1], y[2]) } }

\* Every key counted at one origin
RankDocs ==
    { Document(counts, [i \in DOMAIN counts |-> <<counts[i][1], << <<Unknown, counts[i][2]>> >> >>]) :
        counts \in CountMaps(MaxKeys) }

InitRank == InitReportOn(RankDocs)

\* this.aggregateMethodTotals(counts) and this.getTopMessagesByMethod(counts, n)
\* on the counts readAggregate returns
Rank ==
    /\ phase = "running"
    /\ \E n \in 1..MaxN :
          ranked' = [n |-> n,
                     totals |-> aggregateMethodTotals(readAggregate(store).counts),
                     top |-> getTopMessagesByMethod(readAggregate(store).counts, n)]
    /\ UNCHANGED <<phase, store, local, pc, all, seen, flushes, base, out, envVars, callVars>>

NextRank == Rank

RankSpec == InitRank /\ [][NextRank]_vars

----------------------------------------------------------------------------
(* The reporter on snapshots without origins *)

\* Documents with counted keys and no origin: no files map, or a files map
\* whose entries are all empty
OriginlessDocs ==
    { Document(counts, EmptyObj) : counts \in CountMaps(MaxKeys) }
    \cup
    { Document(counts, [i \in DOMAIN counts |-> <<counts[i][1], EmptyObj>>]) :
        counts \in CountMaps(MaxKeys) }

InitOriginless == InitReportOn(FinalDocs \cup OriginlessDocs)

OriginlessSpec == InitOriginless /\ [][NextReport]_vars

----------------------------------------------------------------------------
(* onRunStart on whatever is at AGGREGATE_PATH *)

InitReset ==
    /\ phase = "idle"
    /\ store \in FinalDocs \cup ForeignDocs(MaxOrigins) \cup MergeStores
    /\ local = [w \in Workers |-> EmptySnapshot]
    /\ pc = [w \in Workers |-> "run"]
    /\ all = [w \in Workers |-> EmptySnapshot]
    /\ seen = [w \in Workers |-> {}]
    /\ flushes = [w \in Workers |-> 0]
    /\ base = store
    /\ out = NoOutput
    /\ InitEnabled
    /\ InitObserved

NextReset == RunStart

ResetSpec == InitReset /\ [][NextReset]_vars

----------------------------------------------------------------------------
(* Vocabulary of the properties: maps compared without their order *)

AsFn(o) == [k \in KeySet(o) |-> Get(o, k)]

AsFn2(files) == [k \in KeySet(files) |-> AsFn(Get(files, k))]

GetOrEmpty(o, k) == IF Has(o, k) THEN Get(o, k) ELSE EmptyObj

\* The key-wise sum of two count maps
SumFn(a, b) == [k \in KeySet(a) \cup KeySet(b) |-> GetOr0(a, k) + GetOr0(b, k)]

\* The key-wise, origin-wise sum of two origin maps
SumFn2(a, b) ==
    [k \in KeySet(a) \cup KeySet(b) |-> SumFn(GetOrEmpty(a, k), GetOrEmpty(b, k))]

\* The workers whose flush has written
Flushed == {w \in Workers : flushes[w] > 0}

\* The calls of key k counted by the workers of ws, over all of them
RECURSIVE LocalTotal(_, _)
LocalTotal(ws, k) ==
    IF ws = {} THEN 0
    ELSE LET w == CHOOSE x \in ws : TRUE IN
         GetOr0(local[w].counts, k) + LocalTotal(ws \ {w}, k)

\* The calls of key k at origin o counted by the workers of ws
RECURSIVE LocalOriginTotal(_, _, _)
LocalOriginTotal(ws, k, o) ==
    IF ws = {} THEN 0
    ELSE LET w == CHOOSE x \in ws : TRUE IN
         GetOr0(GetOrEmpty(local[w].files, k), o) + LocalOriginTotal(ws \ {w}, k, o)

LocalKeys(ws) == UNION {KeySet(local[w].counts) : w \in ws}

LocalOrigins(ws, k) == UNION {KeySet(GetOrEmpty(local[w].files, k)) : w \in ws}

\* The persisted count of key k (0 when the store holds no such key)
Persisted(doc, k) == GetOr0(FlushLoad(doc).counts, k)

PersistedAt(doc, k, o) == GetOr0(GetOrEmpty(FlushLoad(doc).files, k), o)

\* w wrote with no other worker's write between its read and its write
WritesUnraced(w) ==
    /\ pc[w] = "merged"
    /\ pc'[w] = "done"
    /\ seen[w] = Flushed

\* Two flushed workers neither of which read the other's write
Raced(w1, w2) ==
    /\ w1 # w2
    /\ {w1, w2} \subseteq Flushed
    /\ w1 \notin seen[w2]
    /\ w2 \notin seen[w1]

\* Every flush so far ran after the previous one had written
Sequential == \A w1 \in Flushed, w2 \in Flushed : ~Raced(w1, w2)

----------------------------------------------------------------------------
(* C1: after every flush of a run that began with a reset store, every key  *)
(* of the persisted aggregate has a count equal to the sum of its per-origin *)
(* counts, and the two maps hold the same keys.                              *)
C1_CountIsSumOfOrigins ==
    (phase # "idle" /\ store.kind = "ok") =>
        /\ KeySet(store.counts) = KeySet(store.files)
        /\ \A k \in KeySet(store.counts) :
              Get(store.counts, k) = SumSeq(Get(store.files, k))

C1_Witness ==
    /\ Flushed = Workers
    /\ \E k \in KeySet(store.counts) :
          /\ Len(Get(store.files, k)) >= 2
          /\ \E o \in KeySet(Get(store.files, k)) :
                /\ \A w \in Workers : GetOr0(GetOrEmpty(local[w].files, k), o) >= 1
                /\ PersistedAt(store, k, o) = LocalOriginTotal(Workers, k, o)

(* C2: when two workers' flushes race (neither read the other's write), the  *)
(* store's count of every key both counted is strictly less than the sum of  *)
(* the flushed workers' local counts of it: an update is lost.               *)
C2_RaceLosesUpdate ==
    \A w1 \in Workers, w2 \in Workers :
        Raced(w1, w2) =>
            \A k \in KeySet(local[w1].counts) \cap KeySet(local[w2].counts) :
                Persisted(store, k) < LocalTotal(Flushed, k)

C2_Witness ==
    \E w1 \in Workers, w2 \in Workers :
        /\ Raced(w1, w2)
        /\ seen[w1] = {} /\ seen[w2] = {}
        /\ \E k \in KeySet(local[w1].counts) \cap KeySet(local[w2].counts) :
              Persisted(store, k) < GetOr0(local[w1].counts, k) + GetOr0(local[w2].counts, k)

(* C3: a flush with no other write between its read and its write writes    *)
(* the key-wise sum of the store's previous contents and the worker's buffer *)
(* (counts per key, origin counts per key and origin, keys and origins       *)
(* unioned); and after flushes that ran one after the other from the reset   *)
(* store, the store is exactly the sum of the flushed workers' buffers.      *)
C3_Step ==
    \A w \in Workers :
        WritesUnraced(w) =>
            /\ store'.kind = "ok"
            /\ AsFn(store'.counts) = SumFn(FlushLoad(store).counts, local[w].counts)
            /\ AsFn2(store'.files) = SumFn2(FlushLoad(store).files, local[w].files)

C3_Sum ==
    (phase # "idle" /\ Sequential) =>
        /\ AsFn(FlushLoad(store).counts) =
              [k \in LocalKeys(Flushed) |-> LocalTotal(Flushed, k)]
        /\ AsFn2(FlushLoad(store).files) =
              [k \in LocalKeys(Flushed) |->
                  [o \in LocalOrigins(Flushed, k) |-> LocalOriginTotal(Flushed, k, o)]]

C3_MergeIsKeywiseSum == [][C3_Step]_vars /\ []C3_Sum

C3_Witness ==
    /\ Flushed = Workers
    /\ Sequential
    /\ \A w \in Workers : local[w].counts # << >>
    /\ \A w1 \in Workers, w2 \in Workers :
          w1 # w2 => KeySet(local[w1].counts) \cap KeySet(local[w2].counts) = {}
    /\ KeySet(store.counts) = LocalKeys(Workers)

(* C4: the flush is not idempotent: after the same buffer has been flushed   *)
(* twice into a store, every key of the buffer stands at the store's former   *)
(* count plus twice the buffer's count, and so does every origin of the key.  *)
C4_SecondFlushDoubleCounts ==
    flushes[Retrier] = 2 =>
        \A k \in KeySet(local[Retrier].counts) :
            /\ Persisted(store, k) = Persisted(base, k) + 2 * Get(local[Retrier].counts, k)
            /\ \A o \in KeySet(Get(local[Retrier].files, k)) :
                  PersistedAt(store, k, o) =
                      PersistedAt(base, k, o) + 2 * Get(Get(local[Retrier].files, k), o)

C4_Witness ==
    /\ flushes[Retrier] = 2
    /\ base.kind = "ok"
    /\ \E k \in KeySet(local[Retrier].counts) :
          /\ Has(base.counts, k)
          /\ Persisted(store, k) > Persisted(base, k) + Get(local[Retrier].counts, k)

\* No key of the store loses count or disappears in this step
Monotone ==
    \A k \in KeySet(FlushLoad(store).counts) :
        /\ Has(FlushLoad(store').counts, k)
        /\ Persisted(store', k) >= Persisted(store, k)

\* A write by a worker whose read predates another worker's write
RacedWrite ==
    \E w \in Workers : pc[w] = "merged" /\ pc'[w] = "done" /\ seen[w] # Flushed

(* C5 as stated: within a run the persisted count of every key never         *)
(* decreases and no key disappears, under every interleaving of the flushes.  *)
C5_NeverDecreases == [][phase = "running" => Monotone]_vars

(* C5 as amended: the persisted count of a key never decreases and no key    *)
(* disappears, except in a flush whose read predates another worker's write;  *)
(* apart from such a flush only onRunStart removes anything.                  *)
C5_NeverDecreasesUnraced == [][phase = "idle" \/ RacedWrite \/ Monotone]_vars

C5_Witness ==
    /\ Flushed = Workers
    /\ Sequential
    /\ \E k \in KeySet(store.counts) :
          /\ \A w \in Workers : Has(local[w].counts, k)
          /\ Persisted(store, k) = LocalTotal(Workers, k)
          /\ Persisted(store, k) >= 3

(* C6: from any store (populated, corrupt or absent) onRunStart raises       *)
(* nothing and the load that follows returns the empty snapshot with no      *)
(* error; a second onRunStart changes nothing; and once onRunStart has run,  *)
(* the store reads empty with no error until a flush writes.                 *)
C6_ResetThenLoadIsEmpty ==
    LET once == onRunStart(store)
        twice == onRunStart(once.store)
        empty == [counts |-> EmptyObj, files |-> EmptyObj, error |-> NoError]
    IN  /\ ~once.threw
        /\ readAggregate(once.store) = empty
        /\ twice = once
        /\ (phase = "running" /\ Flushed = {}) => readAggregate(store) = empty

C6_Witness ==
    /\ phase = "running"
    /\ Flushed = {}
    /\ base.kind = "ok"
    /\ base.counts # << >>
    /\ store = Absent

----------------------------------------------------------------------------
(* Vocabulary of the report's properties *)

\* The distinct origins of a document, over all of its keys
DistinctOrigins(doc) ==
    {doc.files[i][2][j][1] : <<i, j>> \in
        UNION { {<<a, b>> : b \in DOMAIN doc.files[a][2]} : a \in DOMAIN doc.files }}

HasLine(lines, tag) == \E i \in DOMAIN lines : lines[i][1] = tag

\* The lines of the report under the message line at position i: its file
\* lines and rollup line, up to the next message or section
RECURSIVE BlockFrom(_, _)
BlockFrom(lines, i) ==
    IF i > Len(lines) \/ lines[i][1] \notin {"file", "more"} THEN << >>
    ELSE <<lines[i]>> \o BlockFrom(lines, i + 1)

\* The positions of the message lines that render key k of doc
MessageLines(lines, doc, k) ==
    {i \in DOMAIN lines :
        lines[i] = <<"msg", Get(doc.counts, k), EscapePipes(MessageOf(k))>>}

FileLines(block) == SelectSeq(block, LAMBDA l : l[1] = "file")

MoreLines(block) == SelectSeq(block, LAMBDA l : l[1] = "more")

(* C7: at run completion the report file is written if and only if the      *)
(* final snapshot holds at least 5 distinct origins, and the terminal output *)
(* has the report-path line only when the file is written.                   *)
C7_ReportIffFiveOrigins ==
    phase = "done" =>
        /\ out.written <=> Cardinality(DistinctOrigins(store)) >= 5
        /\ HasLine(out.terminal, "path") => out.written

C7_Witness ==
    /\ phase = "done"
    /\ Cardinality(DistinctOrigins(store)) = 5
    /\ out.written
    /\ HasLine(out.terminal, "path")

(* C8: when the store is unreadable at run completion (readAggregate returns *)
(* an error), the terminal shows an error line, the report holds an error     *)
(* notice, and nothing is ranked.                                             *)
C8_ReadErrorIsReported ==
    (phase = "done" /\ readAggregate(store).error # NoError) =>
        /\ HasLine(out.terminal, "error")
        /\ HasLine(out.md, "h2error")
        /\ ~HasLine(out.terminal, "top")
        /\ ~HasLine(out.md, "msg")

(* C9: every key rendered in the report with n distinct origins lists        *)
(* min(n, 5) of them, the highest by count in descending order, followed by  *)
(* the rollup line "+ K more" with K = n - 5 exactly when n exceeds 5.        *)
C9_TopFiveOriginsAndRollup ==
    (phase = "done" /\ out.written /\ store.kind = "ok") =>
        \A k \in KeySet(store.counts) :
            /\ MessageLines(out.md, store, k) # {}
            /\ \A i \in MessageLines(out.md, store, k) :
                  LET origins == Get(store.files, k)
                      n == Len(origins)
                      block == BlockFrom(out.md, i + 1)
                      listed == FileLines(block)
                      more == MoreLines(block)
                  IN  /\ Len(listed) = (IF n > 5 THEN 5 ELSE n)
                      /\ \A a \in DOMAIN listed : Has(origins, listed[a][3])
                                                  /\ Get(origins, listed[a][3]) = listed[a][2]
                      /\ \A a, b \in DOMAIN listed :
                            a < b => listed[a][2] >= listed[b][2] /\ listed[a][3] # listed[b][3]
                      /\ \A a \in DOMAIN listed, j \in DOMAIN origins :
                            origins[j][2] > listed[a][2] =>
                                \E b \in DOMAIN listed : listed[b][3] = origins[j][1]
                      /\ IF n > 5
                         THEN /\ Len(more) = 1
                              /\ block[Len(block)] =
                                    <<"more", n - 5, IF n - 5 > 1 THEN "files" ELSE "file">>
                         ELSE more = << >>

(* C10: when the report is rendered, a key that is counted but has no        *)
(* origins (its Origin Map entry is empty or missing) is rendered with an    *)
(* empty origin sub-list and the rendering completes.                        *)
C10_KeyWithoutOriginsRenders ==
    (phase = "done" /\ store.kind = "ok" /\ store.counts # << >>
        /\ Cardinality(DistinctOrigins(store)) >= 5) =>
        /\ ~out.threw
        /\ out.written
        /\ \A k \in KeySet(store.counts) :
              GetOrEmpty(store.files, k) = << >> =>
                  /\ MessageLines(out.md, store, k) # {}
                  /\ \A i \in MessageLines(out.md, store, k) :
                        BlockFrom(out.md, i + 1) = << >>

(* C11: one onRunComplete reads the aggregate store exactly once, whether or *)
(* not the detailed report is produced.                                      *)
C11_ReadsStoreOnce ==
    phase = "done" => out.reads = 1

----------------------------------------------------------------------------
(* Vocabulary of the ranking properties *)

\* The category of a key: the method it was built with
Category(k) == <<Head(k)>>

Categories(counts) == {Category(counts[i][1]) : i \in DOMAIN counts}

\* The positions of the keys of category m, in key-iteration order
PositionsOf(counts, m) == {i \in DOMAIN counts : Category(counts[i][1]) = m}

RECURSIVE SumAt(_, _)
SumAt(counts, ps) ==
    IF ps = {} THEN 0
    ELSE LET p == CHOOSE x \in ps : TRUE IN counts[p][2] + SumAt(counts, ps \ {p})

Min(a, b) == IF a < b THEN a ELSE b

(* C12: aggregateMethodTotals returns one entry per category of the keys of  *)
(* the count map and no other, each holding the sum of the counts of the     *)
(* keys of that category; the totals add up to the sum of all counts.        *)
C12_TotalsAreCategorySums ==
    ranked.n > 0 =>
        LET counts == store.counts
            totals == ranked.totals
        IN  /\ KeySet(totals) = Categories(counts)
            /\ Len(totals) = Cardinality(Categories(counts))
            /\ \A m \in Categories(counts) :
                  Get(totals, m) = SumAt(counts, PositionsOf(counts, m))
            /\ SumSeq(totals) = SumSeq(counts)

C12_Witness ==
    /\ ranked.n > 0
    /\ Cardinality(Categories(store.counts)) = 2
    /\ \E m \in Categories(store.counts) :
          /\ Cardinality(PositionsOf(store.counts, m)) = 2
          /\ Get(ranked.totals, m) = 2 * MaxCount

(* C13: for a requested N >= 1, getTopMessagesByMethod returns for each      *)
(* category min(N, number of keys of the category) entries, each a key of    *)
(* the category with its count, in descending count order; no omitted key    *)
(* of the category has a greater count than a returned one; entries of equal *)
(* count, returned or omitted, stay in key-iteration order.                  *)
C13_TopNPerCategory ==
    ranked.n > 0 =>
        LET counts == store.counts
            top == ranked.top
        IN  /\ KeySet(top) = Categories(counts)
            /\ Len(top) = Cardinality(Categories(counts))
            /\ \A m \in Categories(counts) :
                  LET ps == PositionsOf(counts, m)
                      L == Get(top, m)
                      pos(j) == Idx(counts, L[j][3])
                  IN  /\ Len(L) = Min(ranked.n, Cardinality(ps))
                      /\ \A j \in DOMAIN L :
                            /\ Has(counts, L[j][3])
                            /\ pos(j) \in ps
                            /\ L[j][2] = counts[pos(j)][2]
                            /\ L[j][1] = MessageOf(L[j][3])
                      /\ \A a, b \in DOMAIN L :
                            a < b => /\ L[a][2] >= L[b][2]
                                     /\ L[a][3] # L[b][3]
                                     /\ L[a][2] = L[b][2] => pos(a) < pos(b)
                      /\ \A p \in ps, j \in DOMAIN L :
                            (\A i \in DOMAIN L : pos(i) # p) =>
                                /\ counts[p][2] <= L[j][2]
                                /\ counts[p][2] = L[j][2] => pos(j) < p

C13_Witness ==
    /\ ranked.n = 2
    /\ \E m \in Categories(store.counts) :
          /\ Cardinality(PositionsOf(store.counts, m)) = 3
          /\ \A p \in PositionsOf(store.counts, m) : store.counts[p][2] = MaxCount
          /\ Len(Get(ranked.top, m)) = 2

----------------------------------------------------------------------------
(* Vocabulary of the interception properties *)

\* Worker w made a console call in this step
Called(w) == made'[w] # made[w]

\* Exactly the entry k of the count map o grew, by one
GrewByOneAt(o, p, k) ==
    /\ KeySet(p) = KeySet(o) \cup {k}
    /\ GetOr0(p, k) = GetOr0(o, k) + 1
    /\ \A j \in KeySet(p) \ {k} : Get(p, j) = Get(o, j)

\* Every key of the buffer is counted as often as its origins together
BufferConsistent(buf) ==
    /\ KeySet(buf.counts) = KeySet(buf.files)
    /\ \A k \in KeySet(buf.counts) : Get(buf.counts, k) = SumSeq(Get(buf.files, k))

(* C14: every intercepted call increments the local count of one key by     *)
(* exactly 1 and the local origin count of that key at one origin by exactly *)
(* 1 and nothing else; so every key of a local buffer has a count equal to   *)
(* the sum of its origin counts; and no call changes the shared store.       *)
C14_Step ==
    \A w \in Workers :
        Called(w) =>
            /\ store' = store
            /\ \E k \in KeySet(local'[w].counts) :
                  /\ GrewByOneAt(local[w].counts, local'[w].counts, k)
                  /\ KeySet(local'[w].files) = KeySet(local[w].files) \cup {k}
                  /\ \A j \in KeySet(local'[w].files) \ {k} :
                        Get(local'[w].files, j) = Get(local[w].files, j)
                  /\ \E o \in KeySet(Get(local'[w].files, k)) :
                        GrewByOneAt(GetOrEmpty(local[w].files, k),
                                    Get(local'[w].files, k), o)

C14_Sum == \A w \in Workers : BufferConsistent(local[w])

C14_CallCountsOnce == [][C14_Step]_vars /\ []C14_Sum

(* C15: every call of a wrapped console method reaches the original method  *)
(* exactly once, with the arguments it was given, in the order of the calls, *)
(* and only together with its counting.                                      *)
C15_Step ==
    \A w \in Workers :
        Called(w) =>
            /\ forwarded'[w] = Append(forwarded[w], made'[w][Len(made'[w])])
            /\ local'[w] # local[w]

C15_ForwardsOnce == [][C15_Step]_vars /\ [](\A w \in Workers : forwarded[w] = made[w])

(* C17: no console call throws because of the tracking and every call       *)
(* reaches the original method, whatever its arguments and whether or not   *)
(* the origin can be resolved; every failure to resolve the origin yields   *)
(* the '<unknown>' origin.                                                   *)
C17_TrackingNeverThrows ==
    /\ \A e \in ExpectFailures : getCurrentTestFile(e) = Unknown
    /\ \A w \in Workers : raised[w] = 0 /\ Len(forwarded[w]) = Len(made[w])

(* C16: when CONSOLE_COUNT_REPORTER_ENABLED is not set, no console method is *)
(* wrapped and no flush is registered: the local buffers stay empty, every   *)
(* call reaches the original as it was made and none throws, no worker       *)
(* reads or writes the store, which stays as onRunStart left it.             *)
C16_DisabledLeavesConsoleAlone ==
    ~enabled =>
        /\ \A w \in Workers :
              /\ local[w] = EmptySnapshot
              /\ forwarded[w] = made[w]
              /\ raised[w] = 0
              /\ pc[w] # "merged"
              /\ flushes[w] = 0
        /\ phase # "idle" => store = Absent

----------------------------------------------------------------------------
(* Vocabulary of the flush's failure properties *)

\* The write of w's flush failed in this step
WriteFailed(w) == pc[w] = "merged" /\ pc'[w] = "done" /\ flushes'[w] = flushes[w]

(* C18: when the write of a flush fails, the flush ends without raising and  *)
(* is not tried again, and the store is left as it was before the write, so  *)
(* without the worker's counts.                                              *)
C18_Step ==
    \A w \in Workers :
        /\ WriteFailed(w) => store' = store
        /\ (pc[w] = "done" /\ flushes[w] = 0) => pc'[w] = "done"

C18_FailedWriteLeavesStore == [][C18_Step]_vars

(* C19: a flush that finds the store unparseable ends normally and merges    *)
(* into an empty snapshot: after it the store is parseable and holds exactly *)
(* the worker's local buffer, keys and origins in the buffer's order.        *)
C19_CorruptStoreReadsEmpty ==
    (flushes[Retrier] = 1 /\ base.kind = "corrupt") =>
        /\ store.kind = "ok"
        /\ store.counts = local[Retrier].counts
        /\ store.files = local[Retrier].files
        /\ readAggregate(store).error = NoError

C19_Witness ==
    /\ flushes[Retrier] = 1
    /\ pc[Retrier] = "done"
    /\ base = Corrupt
    /\ Len(local[Retrier].counts) = 2
    /\ store = Document(local[Retrier].counts, local[Retrier].files)

(* C20 as stated: each worker flushes exactly once, after all of its calls,  *)
(* and after its flush its local buffer holds no counts.                     *)
C20_BufferDiscarded ==
    \A w \in Workers :
        /\ flushes[w] <= 1
        /\ flushes[w] = 1 => local[w] = EmptySnapshot

(* C20 as amended: each worker flushes exactly once, at its completion and   *)
(* after all of its calls; the flush leaves the local buffer as it was, and  *)
(* no count is merged twice only because the flush runs once: the store      *)
(* never holds more of a key than the flushed workers counted.               *)
C20_Step ==
    \A w \in Workers :
        /\ Called(w) => pc[w] = "run" /\ flushes[w] = 0
        /\ pc'[w] # pc[w] => local'[w] = local[w]

C20_Once ==
    /\ \A w \in Workers :
          /\ flushes[w] <= 1
          /\ flushes[w] = 1 <=> pc[w] = "done"
          /\ phase = "done" => flushes[w] = 1
    /\ phase # "idle" =>
          \A k \in KeySet(FlushLoad(store).counts) :
              Persisted(store, k) <= LocalTotal(Flushed, k)

C20_FlushesOnceBufferKept == [][C20_Step]_vars /\ []C20_Once

C20_Witness ==
    /\ phase = "done"
    /\ \A w \in Workers : flushes[w] = 1 /\ local[w].counts # << >>
    /\ Sequential
    /\ \E k \in KeySet(store.counts) : Persisted(store, k) = LocalTotal(Workers, k)

----------------------------------------------------------------------------
(* Vocabulary of the race's bounds *)

\* The write of w's flush succeeded in this step
Wrote(w) == pc[w] = "merged" /\ pc'[w] = "done" /\ flushes'[w] = flushes[w] + 1

\* The store holds at least what worker w counted, key by key and origin by origin
HoldsAtLeast(doc, w) ==
    /\ \A k \in KeySet(local[w].counts) : Persisted(doc, k) >= Get(local[w].counts, k)
    /\ \A k \in KeySet(local[w].files) :
          \A o \in KeySet(Get(local[w].files, k)) :
              PersistedAt(doc, k, o) >= Get(Get(local[w].files, k), o)

\* The store holds at most what the workers of ws counted together
HoldsAtMost(doc, ws) ==
    /\ \A k \in KeySet(FlushLoad(doc).counts) : Persisted(doc, k) <= LocalTotal(ws, k)
    /\ \A k \in KeySet(FlushLoad(doc).files) :
          \A o \in KeySet(Get(FlushLoad(doc).files, k)) :
              PersistedAt(doc, k, o) <= LocalOriginTotal(ws, k, o)

(* C21: in a run that began with onRunStart and in which every worker       *)
(* flushes once, under every interleaving of the flushes' reads and writes   *)
(* the store holds of each key, and of each key at each origin, at most the  *)
(* sum of the local counts of the workers that have written and at least     *)
(* the local count of the worker that wrote last.                            *)
C21_Step == \A w \in Workers : Wrote(w) => HoldsAtLeast(store', w)

C21_Bounds ==
    /\ phase # "idle" => HoldsAtMost(store, Flushed)
    /\ phase = "done" =>
          /\ HoldsAtMost(store, Workers)
          /\ \E w \in Workers : HoldsAtLeast(store, w)

C21_RacesOnlyLose == [][C21_Step]_vars /\ []C21_Bounds

C21_Witness ==
    /\ phase = "done"
    /\ \E w1 \in Workers, w2 \in Workers : Raced(w1, w2)
    /\ \E k \in KeySet(store.counts) :
          /\ \A w \in Workers : Has(local[w].counts, k)
          /\ Persisted(store, k) < LocalTotal(Workers, k)

(* C22: when the snapshot read at run completion holds no origin at all     *)
(* (the store is absent, empty, unparseable, or counts keys without origins) *)
(* onRunComplete prints nothing to the terminal and writes no report file.   *)
C22_NoOriginsNoOutput ==
    (phase = "done" /\ AllFiles(readAggregate(store).files) = {}) =>
        /\ out.ran
        /\ out.terminal = << >>
        /\ ~out.written
        /\ out.md = << >>

C22_Witness ==
    /\ phase = "done"
    /\ store.kind = "ok"
    /\ Len(store.counts) = MaxKeys
    /\ store.files # << >>
    /\ DistinctOrigins(store) = {}
    /\ out.ran
    /\ out.terminal = << >>
    /\ ~out.written

============================================================================
